---- MODULE Spec2Model ----
(***************************************************************************)
(* Version resolution, build promotion, default artifact and verified      *)
(* download of the PaperMC v3 client (package api).                        *)
(*                                                                         *)
(* A string is modelled as the sequence of its characters, each character  *)
(* a one-character TLA+ string: "1.21" is <<"1", ".", "2", "1">>.  The     *)
(* version comparator is golang.org/x/mod/semver.Compare, which            *)
(* FlattenVersions calls on the identifiers prefixed with "v".             *)
(***************************************************************************)
EXTENDS Integers, Sequences, FiniteSets, TLC

VARIABLES
    Versions,   \* ProjectV3Response.Versions as the service answers it: group key -> list of identifiers
    call,       \* the last call of the client API and what it returned
    cmp,        \* the last evaluation of the sort's less function on a pair of identifiers
    Builds,     \* the builds of one version as the service lists them: BuildV3Response records
    Client,     \* the fields of the Client that the build queries read: Limit and Channel
    promo,      \* the last call of FindPromotedBuild: the queries that failed and what it returned
    Downloads,  \* BuildV3Response.Downloads of one build: key -> DownloadV3
    art,        \* the last call of a default-artifact accessor and what it returned
    Served,     \* the bytes the service streams for the build's download URL
    disk,       \* the bytes of the file at destPath
    dl,         \* the invocation of DownloadFile: its position, its locals and what it returned
    comp,       \* the invocation of a composite download operation that calls DownloadFile
    conc        \* two invocations of DownloadFile that run concurrently on one destination path

versionVars == <<Versions, call, cmp>>

buildVars == <<Builds, Client, promo>>

artifactVars == <<Downloads, art>>

downloadVars == <<Served, disk, dl, comp, conc>>

vars ==
    <<Versions, call, cmp, Builds, Client, promo, Downloads, art, Served, disk, dl, comp, conc>>

----------------------------------------------------------------------------
(* Characters and Go's byte-wise string operations.                        *)

Digits == <<"0", "1", "2", "3", "4", "5", "6", "7", "8", "9">>

Upper == <<"A", "B", "C", "D", "E", "F", "G", "H", "I", "J", "K", "L", "M",
           "N", "O", "P", "Q", "R", "S", "T", "U", "V", "W", "X", "Y", "Z">>

Lower == <<"a", "b", "c", "d", "e", "f", "g", "h", "i", "j", "k", "l", "m",
           "n", "o", "p", "q", "r", "s", "t", "u", "v", "w", "x", "y", "z">>

Range(s) == {s[i] : i \in DOMAIN s}

IndexIn(s, c) == CHOOSE i \in DOMAIN s : s[i] = c

CharSet == {"+", "-", "."} \cup Range(Digits) \cup Range(Upper) \cup Range(Lower)

\* The byte value of a character (ASCII).
Byte ==
    [c \in CharSet |->
        IF c = "+" THEN 43
        ELSE IF c = "-" THEN 45
        ELSE IF c = "." THEN 46
        ELSE IF c \in Range(Digits) THEN 47 + IndexIn(Digits, c)
        ELSE IF c \in Range(Upper) THEN 64 + IndexIn(Upper, c)
        ELSE 96 + IndexIn(Lower, c)]

isDigit(c) == Byte[c] >= 48 /\ Byte[c] <= 57

\* s[from:] of Go, from counted from 0.
Drop(s, from) == SubSeq(s, from + 1, Len(s))

\* s[:to] of Go.
Take(s, to) == SubSeq(s, 1, to)

\* Go's x < y on strings: byte-wise lexicographic order.
RECURSIVE StringLess(_, _)
StringLess(x, y) ==
    IF y = <<>> THEN FALSE
    ELSE IF x = <<>> THEN TRUE
    ELSE IF Byte[x[1]] # Byte[y[1]] THEN Byte[x[1]] < Byte[y[1]]
    ELSE StringLess(Tail(x), Tail(y))

\* strings.ToLower on ASCII.
ToLower(s) ==
    [i \in DOMAIN s |-> IF s[i] \in Range(Upper) THEN Lower[IndexIn(Upper, s[i])] ELSE s[i]]

\* strings.Contains.
Contains(s, sub) ==
    \E i \in 0..(Len(s) - Len(sub)) : SubSeq(s, i + 1, i + Len(sub)) = sub

----------------------------------------------------------------------------
(* golang.org/x/mod/semver, as FlattenVersions uses it.                    *)

\* The length of the longest prefix of v made of digits.
RECURSIVE digitRun(_)
digitRun(v) ==
    IF v # <<>> /\ isDigit(v[1]) THEN 1 + digitRun(Tail(v)) ELSE 0

\* parseInt: a decimal number without leading zeros at the head of v.
parseIntAt(v, i) ==
    IF v[1] = "0" /\ i # 1 THEN [ok |-> FALSE, t |-> <<>>, rest |-> <<>>]
    ELSE [ok |-> TRUE, t |-> Take(v, i), rest |-> Drop(v, i)]

parseInt(v) ==
    IF v = <<>> \/ ~isDigit(v[1]) THEN [ok |-> FALSE, t |-> <<>>, rest |-> <<>>]
    ELSE parseIntAt(v, digitRun(v))

isIdentChar(c) ==
    \/ Byte[c] >= 65 /\ Byte[c] <= 90
    \/ Byte[c] >= 97 /\ Byte[c] <= 122
    \/ isDigit(c)
    \/ c = "-"

\* isBadNum: all digits, longer than one, with a leading zero.
isBadNum(v) ==
    digitRun(v) = Len(v) /\ Len(v) > 1 /\ v[1] = "0"

\* isNum: all digits.
isNum(v) == digitRun(v) = Len(v)

\* The scan of parsePrerelease and parseBuild over v from index i (0-based) with the
\* current identifier starting at start; stop is the set of characters that end
\* the scan, badnum says whether numeric identifiers with leading zeros are refused.
RECURSIVE identScan(_, _, _, _, _)
identScan(v, i, start, stop, badnum) ==
    IF i < Len(v) /\ v[i + 1] \notin stop
    THEN IF ~isIdentChar(v[i + 1]) /\ v[i + 1] # "."
         THEN [ok |-> FALSE, t |-> <<>>, rest |-> <<>>]
         ELSE IF v[i + 1] = "."
              THEN IF start = i \/ (badnum /\ isBadNum(SubSeq(v, start + 1, i)))
                   THEN [ok |-> FALSE, t |-> <<>>, rest |-> <<>>]
                   ELSE identScan(v, i + 1, i + 1, stop, badnum)
              ELSE identScan(v, i + 1, start, stop, badnum)
    ELSE IF start = i \/ (badnum /\ isBadNum(SubSeq(v, start + 1, i)))
         THEN [ok |-> FALSE, t |-> <<>>, rest |-> <<>>]
         ELSE [ok |-> TRUE, t |-> Take(v, i), rest |-> Drop(v, i)]

parsePrerelease(v) ==
    IF v = <<>> \/ v[1] # "-" THEN [ok |-> FALSE, t |-> <<>>, rest |-> <<>>]
    ELSE identScan(v, 1, 1, {"+"}, TRUE)

parseBuild(v) ==
    IF v = <<>> \/ v[1] # "+" THEN [ok |-> FALSE, t |-> <<>>, rest |-> <<>>]
    ELSE identScan(v, 1, 1, {}, FALSE)

Invalid == [ok |-> FALSE, major |-> <<>>, minor |-> <<>>, patch |-> <<>>, prerelease |-> <<>>]

\* The end of parse: after the optional prerelease pre, an optional build and
\* nothing else.
parseEnd(major, minor, patch, pre, bld) ==
    IF ~bld.ok \/ bld.rest # <<>> THEN Invalid
    ELSE [ok |-> TRUE, major |-> major, minor |-> minor, patch |-> patch,
          prerelease |-> pre.t]

parseAfterPrerelease(major, minor, patch, pre) ==
    IF ~pre.ok THEN Invalid
    ELSE parseEnd(major, minor, patch, pre,
                  IF pre.rest # <<>> /\ pre.rest[1] = "+" THEN parseBuild(pre.rest)
                  ELSE [ok |-> TRUE, t |-> <<>>, rest |-> pre.rest])

\* The tail of parse after the patch number: an optional prerelease, an optional
\* build, and nothing else.
parseTail(major, minor, patch, v) ==
    parseAfterPrerelease(major, minor, patch,
                         IF v # <<>> /\ v[1] = "-" THEN parsePrerelease(v)
                         ELSE [ok |-> TRUE, t |-> <<>>, rest |-> v])

\* parse: vMAJOR[.MINOR[.PATCH[-PRERELEASE][+BUILD]]]
parsePatch(ma, mi, pa) ==
    IF ~pa.ok THEN Invalid
    ELSE parseTail(ma.t, mi.t, pa.t, pa.rest)

parseMinor(ma, mi) ==
    IF ~mi.ok THEN Invalid
    ELSE IF mi.rest = <<>>
         THEN [ok |-> TRUE, major |-> ma.t, minor |-> mi.t, patch |-> <<"0">>,
               prerelease |-> <<>>]
    ELSE IF mi.rest[1] # "." THEN Invalid
    ELSE parsePatch(ma, mi, parseInt(Tail(mi.rest)))

parseMajor(ma) ==
    IF ~ma.ok THEN Invalid
    ELSE IF ma.rest = <<>>
         THEN [ok |-> TRUE, major |-> ma.t, minor |-> <<"0">>, patch |-> <<"0">>,
               prerelease |-> <<>>]
    ELSE IF ma.rest[1] # "." THEN Invalid
    ELSE parseMinor(ma, parseInt(Tail(ma.rest)))

parse(v) ==
    IF v = <<>> \/ v[1] # "v" THEN Invalid
    ELSE parseMajor(parseInt(Tail(v)))

\* compareInt: decimal strings without leading zeros, by length and then as strings.
compareInt(x, y) ==
    IF x = y THEN 0
    ELSE IF Len(x) < Len(y) THEN -1
    ELSE IF Len(x) > Len(y) THEN 1
    ELSE IF StringLess(x, y) THEN -1
    ELSE 1

\* The length of the identifier at the head of x, up to the next dot.
RECURSIVE identLen(_)
identLen(x) ==
    IF x # <<>> /\ x[1] # "." THEN 1 + identLen(Tail(x)) ELSE 0

\* comparePrerelease: x and y are "" or start with "-"; dot-separated identifiers
\* are compared one by one, numeric ones as numbers and below alphanumeric ones.
\* nextIdent: the identifier at the head of x and what follows it.
nextIdent(x) == [d |-> Take(x, identLen(x)), rest |-> Drop(x, identLen(x))]

\* Two different identifiers dx, dy of a prerelease; ix, iy say which are numeric.
compareIdent(dx, dy, ix, iy) ==
    IF ix # iy THEN (IF ix THEN -1 ELSE 1)
    ELSE IF ix /\ Len(dx) < Len(dy) THEN -1
    ELSE IF ix /\ Len(dx) > Len(dy) THEN 1
    ELSE IF StringLess(dx, dy) THEN -1
    ELSE 1

RECURSIVE prereleaseLoop(_, _)
prereleaseStep(nx, ny) ==
    IF nx.d # ny.d THEN compareIdent(nx.d, ny.d, isNum(nx.d), isNum(ny.d))
    ELSE prereleaseLoop(nx.rest, ny.rest)

prereleaseLoop(x, y) ==
    IF x # <<>> /\ y # <<>> THEN prereleaseStep(nextIdent(Tail(x)), nextIdent(Tail(y)))
    ELSE IF x = <<>> THEN -1 ELSE 1

comparePrerelease(x, y) ==
    IF x = y THEN 0
    ELSE IF x = <<>> THEN 1
    ELSE IF y = <<>> THEN -1
    ELSE prereleaseLoop(x, y)

\* semver.Compare: an invalid version is below every valid one and equal to
\* every other invalid one.
\* The first of the comparison results c that is not 0, or 0.
RECURSIVE firstNonZero(_)
firstNonZero(c) ==
    IF c = <<>> THEN 0 ELSE IF Head(c) # 0 THEN Head(c) ELSE firstNonZero(Tail(c))

compareParsed(pv, pw) ==
    IF ~pv.ok /\ ~pw.ok THEN 0
    ELSE IF ~pv.ok THEN -1
    ELSE IF ~pw.ok THEN 1
    ELSE firstNonZero(<<compareInt(pv.major, pw.major),
                        compareInt(pv.minor, pw.minor),
                        compareInt(pv.patch, pw.patch),
                        comparePrerelease(pv.prerelease, pw.prerelease)>>)

Compare(v, w) == compareParsed(parse(v), parse(w))

----------------------------------------------------------------------------
(* Version identifiers the PaperMC service publishes, as character         *)
(* sequences.                                                               *)

\* "1.7.10"
v1_7_10 == <<"1", ".", "7", ".", "1", "0">>

\* "1.9.4"
v1_9_4 == <<"1", ".", "9", ".", "4">>

\* "1.10.2"
v1_10_2 == <<"1", ".", "1", "0", ".", "2">>

\* "1.21.10"
v1_21_10 == <<"1", ".", "2", "1", ".", "1", "0">>

\* "1.21.11-rc3"
v1_21_11_rc3 == <<"1", ".", "2", "1", ".", "1", "1", "-", "r", "c", "3">>

\* "1.21.11"
v1_21_11 == <<"1", ".", "2", "1", ".", "1", "1">>

\* "1.21-rc1"
v1_21_rc1 == <<"1", ".", "2", "1", "-", "r", "c", "1">>

\* "1.7-SNAPSHOT"
v1_7_SNAPSHOT == <<"1", ".", "7", "-", "S", "N", "A", "P", "S", "H", "O", "T">>

\* "1.21"
v1_21 == <<"1", ".", "2", "1">>

\* "1.21.0"
v1_21_0 == <<"1", ".", "2", "1", ".", "0">>

\* "1.2.3"
v1_2_3 == <<"1", ".", "2", ".", "3">>

\* "1.2.3.0"
v1_2_3_0 == <<"1", ".", "2", ".", "3", ".", "0">>

\* "1.2.3.4"
v1_2_3_4 == <<"1", ".", "2", ".", "3", ".", "4">>

\* "1.2.4"
v1_2_4 == <<"1", ".", "2", ".", "4">>

\* "1.21.11-rc.10"
v1_21_11_rc_10 == <<"1", ".", "2", "1", ".", "1", "1", "-", "r", "c", ".", "1", "0">>

\* "1.21.11-rc.2"
v1_21_11_rc_2 == <<"1", ".", "2", "1", ".", "1", "1", "-", "r", "c", ".", "2">>

\* "1.21.11-pre1"
v1_21_11_pre1 == <<"1", ".", "2", "1", ".", "1", "1", "-", "p", "r", "e", "1">>

\* "1.21.11-rc1"
v1_21_11_rc1 == <<"1", ".", "2", "1", ".", "1", "1", "-", "r", "c", "1">>

\* "1.21-pre1"
v1_21_pre1 == <<"1", ".", "2", "1", "-", "p", "r", "e", "1">>

\* "1.2.3.4-rc1"
v1_2_3_4_rc1 == <<"1", ".", "2", ".", "3", ".", "4", "-", "r", "c", "1">>

----------------------------------------------------------------------------
(* ProjectV3Response.FlattenVersions.                                       *)

\* A less closure that holds for equal versions too: Compare(vi, vj) <= 0.
lessOrEqual(a, b) == Compare(<<"v">> \o a, <<"v">> \o b) <= 0

\* A less closure that compares the identifiers as plain strings: vi < vj.
lessLexical(a, b) == StringLess(<<"v">> \o a, <<"v">> \o b)

\* The less closure FlattenVersions hands to sort.Slice, on the two elements.
less(a, b) == Compare(<<"v">> \o a, <<"v">> \o b) < 0

\* The inner loop of insertion sort: the element at j moves down while it is
\* less than its predecessor.
RECURSIVE siftDown(_, _)
siftDown(data, j) ==
    IF j > 1 /\ less(data[j], data[j - 1])
    THEN siftDown([data EXCEPT ![j] = data[j - 1], ![j - 1] = data[j]], j - 1)
    ELSE data

RECURSIVE insertionSortFrom(_, _)
insertionSortFrom(data, i) ==
    IF i > Len(data) THEN data ELSE insertionSortFrom(siftDown(data, i), i + 1)

\* sort.Slice: pdqsort, which sorts a slice of at most 12 elements by
\* insertion sort.  Every slice of the model is within that length.
sortSlice(data) == insertionSortFrom(data, 2)

\* The elements of the groups of p, appended in the order the map is iterated.
RECURSIVE collect(_, _)
collect(p, order) ==
    IF order = <<>> THEN <<>> ELSE p[Head(order)] \o collect(p, Tail(order))

\* FlattenVersions with allVersions = versions in place of the append: only the
\* group iterated last is kept.
flattenLastGroup(p, order) ==
    sortSlice(IF order = <<>> THEN <<>> ELSE p[order[Len(order)]])

\* FlattenVersions on the map p, iterated in the order of keys `order`.
FlattenVersions(p, order) == sortSlice(collect(p, order))

\* The orders in which Go may iterate a map with key set K.
IterationOrders(K) ==
    {o \in [1..Cardinality(K) -> K] : \A i, j \in DOMAIN o : i # j => o[i] # o[j]}

----------------------------------------------------------------------------
(* Client.GetLatestVersion, Client.GetRecommendedVersion.                   *)

\* The result of a call: the flattened list it worked on, the value and the error.
Result(flat, val, err) == [flat |-> flat, val |-> val, err |-> err]

\* The three substring tests of isSnapshotOrPreRelease on the lower-cased version.
containsMarker(lower) ==
    \/ Contains(lower, <<"s", "n", "a", "p", "s", "h", "o", "t">>)
    \/ Contains(lower, <<"-", "p", "r", "e">>)
    \/ Contains(lower, <<"-", "r", "c">>)

\* isSnapshotOrPreRelease that looks for "snapshot" only.
isSnapshotOnly(version) ==
    Contains(ToLower(version), <<"s", "n", "a", "p", "s", "h", "o", "t">>)

\* isSnapshotOrPreRelease
isSnapshotOrPreRelease(version) == containsMarker(ToLower(version))

\* GetLatestVersion; failed says that GetProject returned an error.
\* GetLatestVersion without the check for an empty list.
latestOfUnchecked(versions) ==
    Result(versions, IF Len(versions) = 0 THEN <<>> ELSE versions[Len(versions)], "")

\* GetLatestVersion after FlattenVersions returned versions.
latestOf(versions) ==
    IF Len(versions) = 0
    THEN Result(versions, <<>>, "no versions found for this project")
    ELSE Result(versions, versions[Len(versions)], "")

GetLatestVersion(p, order, failed) ==
    IF failed THEN Result(<<>>, <<>>, "failed to get project info")
    ELSE latestOf(FlattenVersions(p, order))

\* The loop of GetRecommendedVersion from index i (1-based) down: the first
\* version that is no snapshot or pre-release, or the last one when there is none.
RECURSIVE scanRecommended(_, _)
scanRecommended(versions, i) ==
    IF i < 1 THEN versions[Len(versions)]
    ELSE IF ~isSnapshotOrPreRelease(versions[i]) THEN versions[i]
    ELSE scanRecommended(versions, i - 1)

\* GetRecommendedVersion; failed says that GetProject returned an error.
\* GetRecommendedVersion after FlattenVersions returned versions.
recommendedOf(versions) ==
    IF Len(versions) = 0
    THEN Result(versions, <<>>, "no versions found for this project")
    ELSE Result(versions, scanRecommended(versions, Len(versions)), "")

GetRecommendedVersion(p, order, failed) ==
    IF failed THEN Result(<<>>, <<>>, "failed to get project info")
    ELSE recommendedOf(FlattenVersions(p, order))

----------------------------------------------------------------------------
(* The state machine: the service's answer for the project is fixed and    *)
(* one operation of the client is called on it (the client keeps no state  *)
(* between calls).                                                          *)

\* The largest number of version identifiers of a project.
MaxIds == 3

\* The identifiers of the projects of the model.
Vocab ==
    {v1_7_10, v1_9_4, v1_10_2, v1_21_10, v1_21_11_rc3, v1_21_11, v1_21_rc1, v1_7_SNAPSHOT}

\* The identifiers the comparator is evaluated on.
CmpVocab ==
    Vocab \cup {v1_21, v1_21_0, v1_2_3, v1_2_3_0, v1_2_3_4, v1_2_4, v1_21_11_rc_10,
                v1_21_11_rc_2, v1_21_11_pre1, v1_21_11_rc1, v1_21_pre1, v1_2_3_4_rc1}

IdLists == UNION {[1..k -> Vocab] : k \in 0..MaxIds}

\* The fixture of TestFlattenVersions_SemverSort that the specification quotes.
RegressionGroups ==
    [k \in {"1.21", "1.7"} |->
        IF k = "1.21" THEN <<v1_21_11, v1_21_11_rc3, v1_21_10>> ELSE <<v1_7_10>>]

\* The Versions maps of the model: no group, one group, or two groups.
ProjectResponses ==
    {[k \in {} |-> <<>>]}
    \cup {[k \in {"1.21"} |-> s] : s \in IdLists}
    \cup UNION {{[k \in {"1.21", "1.7"} |-> IF k = "1.21" THEN Take(s, j) ELSE Drop(s, j)] :
                    j \in 0..Len(s)} : s \in IdLists}
    \cup {RegressionGroups}

NoCall == [op |-> "none", flat |-> <<>>, again |-> <<>>, val |-> <<>>, err |-> "", limit |-> 0]

\* The record of a call of op that returned r.
Returned(op, r) ==
    [NoCall EXCEPT !.op = op, !.flat = r.flat, !.val = r.val, !.err = r.err]

NoCmp == [a |-> <<>>, b |-> <<>>, ab |-> FALSE, ba |-> FALSE, done |-> FALSE]

\* No FindPromotedBuild call yet, on a client as NewClient returns it.
NoPromo ==
    [op |-> "none", failed |-> [rec |-> FALSE, stable |-> FALSE, latest |-> FALSE],
     id |-> 0, err |-> "", channels |-> <<>>, query |-> <<>>, builds |-> <<>>]

buildsIdle ==
    /\ Builds = <<>>
    /\ Client = [Limit |-> 0, Channel |-> ""]
    /\ promo = NoPromo

NoArt == [op |-> "none", val |-> "", err |-> ""]

artifactIdle ==
    /\ Downloads = [k \in {} |-> <<>>]
    /\ art = NoArt

\* DownloadFile has not been called.
\* A nil *DownloadResult is <<>>, a result r is <<r>>; reader is what is left
\* to read of the response body, hasher the bytes written to the hasher, at
\* the step DownloadFile returned from.  ctxDone: the caller's context is
\* cancelled or past its deadline; buffered: how many of the bytes of reader
\* the transport has already received.
NoDownload ==
    [pc |-> "idle", at |-> "", destPath |-> "", downloadURL |-> "", expectedSHA256 |-> <<>>,
     reader |-> <<>>, hasher |-> <<>>, result |-> <<>>, err |-> "", exit |-> 0, out |-> "",
     ctxDone |-> FALSE, buffered |-> 0]

\* No file at destPath.
NoFile == [exists |-> FALSE, data |-> <<>>]

\* No composite download operation called yet.
NoComposite ==
    [op |-> "none", pc |-> "idle", version |-> <<>>, build |-> 0, destPath |-> "",
     result |-> <<>>, err |-> ""]

\* The composite operations and the concurrent invocations are not running.
othersIdle ==
    /\ comp = NoComposite
    /\ conc = [i \in {1, 2} |-> NoDownload]

downloadIdle ==
    /\ Served = [u \in {} |-> <<>>]
    /\ disk = NoFile
    /\ dl = NoDownload
    /\ othersIdle

Init ==
    /\ Versions \in ProjectResponses
    /\ call = NoCall
    /\ cmp = NoCmp
    /\ buildsIdle
    /\ artifactIdle
    /\ downloadIdle

\* project.FlattenVersions() on the response of GetProject.
CallFlattenVersions ==
    /\ call.op = "none"
    /\ \E order \in IterationOrders(DOMAIN Versions) :
          call' = [NoCall EXCEPT !.op = "FlattenVersions",
                                 !.flat = FlattenVersions(Versions, order)]
    /\ UNCHANGED <<Versions, cmp, buildVars, artifactVars, downloadVars>>

\* FlattenVersions on a response whose only group holds the list the last
\* FlattenVersions returned.
CallFlattenAgain ==
    /\ call.op = "FlattenVersions"
    /\ call' = [call EXCEPT !.op = "FlattenAgain",
                            !.again = FlattenVersions([k \in {"all"} |-> call.flat], <<"all">>)]
    /\ UNCHANGED <<Versions, cmp, buildVars, artifactVars, downloadVars>>

CallGetLatestVersion ==
    /\ call.op = "none"
    /\ \E order \in IterationOrders(DOMAIN Versions), failed \in BOOLEAN :
          call' = Returned("GetLatestVersion", GetLatestVersion(Versions, order, failed))
    /\ UNCHANGED <<Versions, cmp, buildVars, artifactVars, downloadVars>>

CallGetRecommendedVersion ==
    /\ call.op = "none"
    /\ \E order \in IterationOrders(DOMAIN Versions), failed \in BOOLEAN :
          call' = Returned("GetRecommendedVersion",
                           GetRecommendedVersion(Versions, order, failed))
    /\ UNCHANGED <<Versions, cmp, buildVars, artifactVars, downloadVars>>

Next ==
    \/ CallFlattenVersions
    \/ CallFlattenAgain
    \/ CallGetLatestVersion
    \/ CallGetRecommendedVersion

Spec == Init /\ [][Next]_vars

\* The comparator alone: the less closure of FlattenVersions on a slice of two
\* identifiers, in both directions.
InitCmp ==
    /\ Versions = [k \in {} |-> <<>>]
    /\ call = NoCall
    /\ cmp = NoCmp
    /\ buildsIdle
    /\ artifactIdle
    /\ downloadIdle

CallLess ==
    /\ ~cmp.done
    /\ \E a \in CmpVocab, b \in CmpVocab :
          cmp' = [a |-> a, b |-> b, ab |-> less(a, b), ba |-> less(b, a), done |-> TRUE]
    /\ UNCHANGED <<Versions, call, buildVars, artifactVars, downloadVars>>

NextCmp == CallLess

SpecCmp == InitCmp /\ [][NextCmp]_vars

----------------------------------------------------------------------------
(* The comparator of the specification (section 4.1), which the properties *)
(* below measure FlattenVersions against.                                   *)

\* The index of the first hyphen of id, or Len(id) + 1.
RECURSIVE SpecHyphenFrom(_, _)
SpecHyphenFrom(id, i) ==
    IF i > Len(id) \/ id[i] = "-" THEN i ELSE SpecHyphenFrom(id, i + 1)

SpecHasSuffix(id) == SpecHyphenFrom(id, 1) <= Len(id)

SpecSuffix(id) == Drop(id, SpecHyphenFrom(id, 1))

\* The value of a decimal number.
RECURSIVE SpecNumVal(_)
SpecNumVal(d) ==
    IF d = <<>> THEN 0 ELSE 10 * SpecNumVal(Take(d, Len(d) - 1)) + (Byte[d[Len(d)]] - 48)

\* The numeric components of a dot-separated numeric prefix.
RECURSIVE SpecSplit(_)
SpecSplit(s) ==
    IF s = <<>> THEN <<>>
    ELSE LET n == identLen(s)
         IN  <<SpecNumVal(Take(s, n))>> \o (IF n < Len(s) THEN SpecSplit(Drop(s, n + 1)) ELSE <<>>)

SpecComponents(id) == SpecSplit(Take(id, SpecHyphenFrom(id, 1) - 1))

SpecPadded(c, i) == IF i <= Len(c) THEN c[i] ELSE 0

\* -1, 0 or 1: the numeric prefixes of a and b compared component-wise as
\* integers, the shorter one padded with zeros.
SpecNumCmp(a, b) ==
    LET ca == SpecComponents(a)
        cb == SpecComponents(b)
        n == IF Len(ca) > Len(cb) THEN Len(ca) ELSE Len(cb)
        diff == {i \in 1..n : SpecPadded(ca, i) # SpecPadded(cb, i)}
    IN  IF diff = {} THEN 0
        ELSE LET i == CHOOSE k \in diff : \A m \in diff : k <= m
             IN  IF SpecPadded(ca, i) < SpecPadded(cb, i) THEN -1 ELSE 1

\* a sorts strictly before b under the comparator of the specification.
SpecLess(a, b) ==
    \/ SpecNumCmp(a, b) < 0
    \/ /\ SpecNumCmp(a, b) = 0
       /\ \/ SpecHasSuffix(a) /\ ~SpecHasSuffix(b)
          \/ SpecHasSuffix(a) /\ SpecHasSuffix(b) /\ StringLess(SpecSuffix(a), SpecSuffix(b))

\* The prerelease flag of the data model (section 3): the identifier contains,
\* in any letter case, "snapshot", "-pre" or "-rc".
SpecFlagged(id) ==
    \E i \in DOMAIN id, w \in {<<"s", "n", "a", "p", "s", "h", "o", "t">>,
                               <<"-", "p", "r", "e">>, <<"-", "r", "c">>} :
        /\ i + Len(w) - 1 <= Len(id)
        /\ \A k \in DOMAIN w :
              Byte[id[i + k - 1]] \in {Byte[w[k]], Byte[w[k]] - 32}

\* All identifiers of the project, group by group.
AllIds(p) == collect(p, CHOOSE o \in IterationOrders(DOMAIN p) : TRUE)

\* How often id occurs in the list s.
Count(id, s) == Cardinality({i \in DOMAIN s : s[i] = id})

\* The lists that hold the elements of s in another order.
Reordered(s) == {[i \in DOMAIN s |-> s[f[i]]] : f \in Permutations(DOMAIN s)}

\* The maps with the groups of p, each group in another order.
Regrouped(p) ==
    {q \in [DOMAIN p -> UNION {Reordered(p[k]) : k \in DOMAIN p}] :
        \A k \in DOMAIN p : q[k] \in Reordered(p[k])}

Last(s) == s[Len(s)]

----------------------------------------------------------------------------
(* Properties of FlattenVersions.                                           *)

\* C1: the list FlattenVersions returns is strictly ascending under the
\* comparator of the specification: each element compares strictly less than
\* the next one.  Stated for the projects whose identifiers are pairwise
\* different under that comparator, where a strict order exists.
C1_StrictlyAscending ==
    (/\ call.op = "FlattenVersions"
     /\ \A i, j \in DOMAIN call.flat :
           i # j => SpecLess(call.flat[i], call.flat[j]) \/ SpecLess(call.flat[j], call.flat[i])) =>
        \A i \in 1..(Len(call.flat) - 1) : SpecLess(call.flat[i], call.flat[i + 1])

\* C2: FlattenVersions does not depend on the order of its input: the same
\* groups, iterated in any order and with the identifiers of each group in any
\* order, flatten to the list this call returned, element by element.
C2_OrderIndependent ==
    call.op = "FlattenVersions" =>
        \A q \in Regrouped(Versions), order \in IterationOrders(DOMAIN Versions) :
            FlattenVersions(q, order) = call.flat

\* C3: flattening a single group that holds the list FlattenVersions returned
\* yields that list again.
C3_Idempotent ==
    call.op = "FlattenAgain" => call.again = call.flat

\* C3 witness: a list of three was flattened again, its input was not in sorted
\* order, and two of its elements compare equal under the sort's comparator.
C3_Witness ==
    /\ call.op = "FlattenAgain"
    /\ Len(call.flat) = 3
    /\ AllIds(Versions) # call.flat
    /\ \E i \in 1..2 : ~less(call.flat[i], call.flat[i + 1])

\* True of the identifiers 1.minor.x, with or without a suffix.
InFamily(id, minor) ==
    /\ Len(SpecComponents(id)) = 3
    /\ SpecComponents(id)[1] = 1
    /\ SpecComponents(id)[2] = minor

SemverSortExpected == <<v1_7_10, v1_21_10, v1_21_11_rc3, v1_21_11>>

\* C4: the order is numeric and a pre-release comes directly before its
\* release: the regression groups flatten to exactly 1.7.10, 1.21.10,
\* 1.21.11-rc3, 1.21.11; every 1.7.x and 1.9.x comes before every 1.10.x and
\* 1.21.x; and in a project of three-component identifiers no element of the
\* result is older than one before it, so the last k elements are the k newest.
C4_NumericOrder ==
    call.op = "FlattenVersions" =>
        /\ Versions = RegressionGroups => call.flat = SemverSortExpected
        /\ \A i, j \in DOMAIN call.flat :
              /\ InFamily(call.flat[i], 7) \/ InFamily(call.flat[i], 9)
              /\ InFamily(call.flat[j], 10) \/ InFamily(call.flat[j], 21)
              => i < j
        /\ (\A i \in DOMAIN call.flat : Len(SpecComponents(call.flat[i])) = 3)
              => \A i, j \in DOMAIN call.flat :
                    i < j => ~SpecLess(call.flat[j], call.flat[i])

\* C4 witness: the regression groups were flattened, with the group "1.7"
\* iterated last or first.
C4_Witness ==
    /\ call.op = "FlattenVersions"
    /\ Versions = RegressionGroups
    /\ call.flat = SemverSortExpected

\* C5: the list FlattenVersions returns is a permutation of the concatenation
\* of the groups: as long as the groups together, and every identifier as often
\* as in the groups.
C5_Permutation ==
    call.op = "FlattenVersions" =>
        /\ Len(call.flat) = Len(AllIds(Versions))
        /\ \A id \in Vocab : Count(id, call.flat) = Count(id, AllIds(Versions))

\* C5 witness: two non-empty groups were flattened, and one identifier is in
\* both of them.
C5_Witness ==
    /\ call.op = "FlattenVersions"
    /\ Len(call.flat) = 3
    /\ DOMAIN Versions = {"1.21", "1.7"}
    /\ \E i \in DOMAIN Versions["1.21"], j \in DOMAIN Versions["1.7"] :
          Versions["1.21"][i] = Versions["1.7"][j]

\* C6: the comparator of FlattenVersions orders two identifiers with different
\* numeric prefixes by the prefixes, compared component-wise as integers with
\* the shorter one padded with zeros, whatever their lengths; two identifiers
\* without suffix whose padded prefixes are equal (1.21 and 1.21.0, 1.2.3 and
\* 1.2.3.0) compare equal.
C6_ZeroPaddedNumeric ==
    cmp.done =>
        /\ SpecNumCmp(cmp.a, cmp.b) < 0 => cmp.ab /\ ~cmp.ba
        /\ SpecNumCmp(cmp.a, cmp.b) > 0 => cmp.ba /\ ~cmp.ab
        /\ (SpecNumCmp(cmp.a, cmp.b) = 0 /\ ~SpecHasSuffix(cmp.a) /\ ~SpecHasSuffix(cmp.b))
              => ~cmp.ab /\ ~cmp.ba

\* C7: of two identifiers with equal numeric prefixes, the comparator of
\* FlattenVersions puts a suffixed one strictly before an unsuffixed one, and
\* orders two suffixed ones by the plain string comparison of their suffixes.
C7_SuffixRule ==
    (cmp.done /\ SpecNumCmp(cmp.a, cmp.b) = 0) =>
        /\ (SpecHasSuffix(cmp.a) /\ ~SpecHasSuffix(cmp.b)) => cmp.ab /\ ~cmp.ba
        /\ (SpecHasSuffix(cmp.a) /\ SpecHasSuffix(cmp.b)) =>
              /\ cmp.ab <=> StringLess(SpecSuffix(cmp.a), SpecSuffix(cmp.b))
              /\ cmp.ba <=> StringLess(SpecSuffix(cmp.b), SpecSuffix(cmp.a))

\* C8, as stated: FlattenVersions fails exactly when the groups hold no
\* identifier at all.
C8_FlattenFailsOnEmpty ==
    call.op = "FlattenVersions" => (call.err # "" <=> Len(AllIds(Versions)) = 0)

\* C8, amended: FlattenVersions never fails and returns the empty list exactly
\* for groups that hold no identifier; its callers GetLatestVersion and
\* GetRecommendedVersion, when the project query succeeded, fail with "no
\* versions found for this project" exactly in that case and return without
\* error otherwise.
C8_EmptyIsCallersError ==
    /\ call.op = "FlattenVersions" =>
          /\ call.err = ""
          /\ Len(call.flat) = 0 <=> Len(AllIds(Versions)) = 0
    /\ (/\ call.op \in {"GetLatestVersion", "GetRecommendedVersion"}
        /\ call.err # "failed to get project info") =>
          /\ call.err = "no versions found for this project" <=> Len(AllIds(Versions)) = 0
          /\ call.err = "" <=> Len(AllIds(Versions)) > 0

\* C8 witness: GetLatestVersion failed on a project of two empty groups.
C8_Witness ==
    /\ call.op = "GetLatestVersion"
    /\ call.err = "no versions found for this project"
    /\ DOMAIN Versions = {"1.21", "1.7"}

----------------------------------------------------------------------------
(* Properties of GetRecommendedVersion.                                     *)

\* C9: when the project has a version that is not prerelease-flagged,
\* GetRecommendedVersion returns a version that is not prerelease-flagged, and
\* every version after it in the flattened list is prerelease-flagged.
C9_RecommendedSkipsPrerelease ==
    (/\ call.op = "GetRecommendedVersion"
     /\ call.err # "failed to get project info"
     /\ \E i \in DOMAIN AllIds(Versions) : ~SpecFlagged(AllIds(Versions)[i])) =>
        /\ call.err = ""
        /\ ~SpecFlagged(call.val)
        /\ \E i \in DOMAIN call.flat :
              /\ call.flat[i] = call.val
              /\ \A j \in (i + 1)..Len(call.flat) : SpecFlagged(call.flat[j])

\* C9 witness: GetRecommendedVersion passed over a prerelease-flagged newest
\* version and returned an older one.
C9_Witness ==
    /\ call.op = "GetRecommendedVersion"
    /\ call.err = ""
    /\ SpecFlagged(Last(call.flat))
    /\ call.val # Last(call.flat)
    /\ ~SpecFlagged(call.val)

\* C10: when every version of a non-empty project is prerelease-flagged,
\* GetRecommendedVersion returns without error the last element of the
\* flattened list, the identifier GetLatestVersion returns for the project; and
\* it returns an error only for a project without versions or a failed project
\* query.
C10_FallbackIsLatest ==
    call.op = "GetRecommendedVersion" =>
        /\ call.err # "" =>
              \/ call.err = "failed to get project info"
              \/ Len(AllIds(Versions)) = 0
        /\ (/\ call.err # "failed to get project info"
            /\ Len(AllIds(Versions)) > 0
            /\ \A i \in DOMAIN AllIds(Versions) : SpecFlagged(AllIds(Versions)[i])) =>
              /\ call.err = ""
              /\ call.val = Last(call.flat)
              /\ \A order \in IterationOrders(DOMAIN Versions) :
                    GetLatestVersion(Versions, order, FALSE).val = call.val

----------------------------------------------------------------------------
(* Builds of a version: GetBuilds, GetLatestBuildV3 and FindPromotedBuild.  *)
(* A build is a record [ID, Channel]; a channel of the client is one of the *)
(* Channel constants, a channel of a build is the service's upper-case name.*)

ChannelAlpha == "alpha"

ChannelStable == "stable"

ChannelRecommended == "recommended"

\* channelToAPI: the client's channels the builds query can filter on.
channelToAPI ==
    [c \in {ChannelAlpha, "beta", ChannelStable, ChannelRecommended} |->
        CASE c = ChannelAlpha -> "ALPHA"
          [] c = "beta" -> "BETA"
          [] c = ChannelStable -> "STABLE"
          [] c = ChannelRecommended -> "RECOMMENDED"]

\* The channel names GetBuilds puts in the query string: the channels that
\* channelToAPI knows, the others dropped.
RECURSIVE channelStrs(_)
channelStrs(channels) ==
    IF channels = <<>> THEN <<>>
    ELSE (IF Head(channels) \in DOMAIN channelToAPI
            THEN <<channelToAPI[Head(channels)]>> ELSE <<>>)
         \o channelStrs(Tail(channels))

inChannels(b, apiChannels) == b.Channel \in Range(apiChannels)

\* The list the service answers to the builds query: every build of the
\* version when the query string has no channel, the builds of the named
\* channels otherwise, in the order the service keeps them.
RECURSIVE queryBuilds(_, _)
queryBuilds(all, apiChannels) ==
    IF apiChannels = <<>> \/ all = <<>> THEN all
    ELSE (IF inChannels(Head(all), apiChannels) THEN <<Head(all)>> ELSE <<>>)
         \o queryBuilds(Tail(all), apiChannels)

\* builds[len(builds)-c.Limit:] when the limit is set and exceeded.
applyLimit(c, builds) ==
    IF c.Limit > 0 /\ Len(builds) > c.Limit THEN Drop(builds, Len(builds) - c.Limit)
    ELSE builds

\* GetBuilds; failed: the request or the decoding of its answer failed.
GetBuilds(c, all, channels, failed) ==
    IF failed THEN [builds |-> <<>>, err |-> "failed to request builds"]
    ELSE [builds |-> applyLimit(c, queryBuilds(all, channelStrs(channels))), err |-> ""]

\* The loop of GetLatestBuildV3: the build of the highest ID, latest so far.
RECURSIVE highestFrom(_, _, _)
highestFrom(builds, i, latest) ==
    IF i > Len(builds) THEN latest
    ELSE highestFrom(builds, i + 1, IF builds[i].ID > latest.ID THEN builds[i] ELSE latest)

NoBuild == [ID |-> 0, Channel |-> ""]

\* GetLatestBuildV3 with a channel filter, on what GetBuilds returned.
latestOfChannel(r) ==
    IF r.err # "" THEN [build |-> NoBuild, err |-> "failed to get builds with channel filter"]
    ELSE IF Len(r.builds) = 0 THEN [build |-> NoBuild, err |-> "no builds found for channel"]
    ELSE [build |-> highestFrom(r.builds, 2, r.builds[1]), err |-> ""]

\* GetLatestBuildV3 without a channel filter: the service's answer to
\* builds/latest, the build of the highest ID, or 404 for a version without
\* builds.
latestShortcut(all, failed) ==
    IF failed \/ all = <<>> THEN [build |-> NoBuild, err |-> "failed to request latest build"]
    ELSE [build |-> highestFrom(all, 2, all[1]), err |-> ""]

\* GetLatestBuildV3 asking builds/latest whatever the client's channel.
latestIgnoringChannel(c, all, failed) == latestShortcut(all, failed)

GetLatestBuildV3(c, all, failed) ==
    IF c.Channel # "" THEN latestOfChannel(GetBuilds(c, all, <<c.Channel>>, failed))
    ELSE latestShortcut(all, failed)

\* The end of FindPromotedBuild, on what GetLatestBuildV3 returned.
promotedFromLatest(r) ==
    IF r.err # "" THEN [id |-> 0, err |-> "failed to get latest build"]
    ELSE [id |-> r.build.ID, err |-> ""]

\* FindPromotedBuild from its second query on, r what GetBuilds returned for
\* ChannelStable.
promotedFromStable(c, all, f, r) ==
    IF r.err = "" /\ Len(r.builds) > 0 THEN [id |-> r.builds[Len(r.builds)].ID, err |-> ""]
    ELSE promotedFromLatest(GetLatestBuildV3(c, all, f.latest))

\* FindPromotedBuild returning the error of a failed recommended query.
promotedOrRecommendedError(c, all, f, r) ==
    IF r.err # "" THEN [id |-> 0, err |-> r.err]
    ELSE IF Len(r.builds) > 0 THEN [id |-> r.builds[Len(r.builds)].ID, err |-> ""]
    ELSE promotedFromStable(c, all, f, GetBuilds(c, all, <<ChannelStable>>, f.stable))

\* FindPromotedBuild from its first query on, r what GetBuilds returned for
\* ChannelRecommended.
promotedFromRecommended(c, all, f, r) ==
    IF r.err = "" /\ Len(r.builds) > 0 THEN [id |-> r.builds[Len(r.builds)].ID, err |-> ""]
    ELSE promotedFromStable(c, all, f, GetBuilds(c, all, <<ChannelStable>>, f.stable))

\* FindPromotedBuild; f says which of its three queries fail.
FindPromotedBuild(c, all, f) ==
    promotedFromRecommended(c, all, f, GetBuilds(c, all, <<ChannelRecommended>>, f.rec))

\* The highest build ID of the model, and the length of its longest list.
MaxBuildId == 3

\* The largest Limit of a client of the model.
MaxLimit == 2

\* The channels of the builds the service lists.
ServiceChannels == {"ALPHA", "STABLE", "RECOMMENDED"}

\* The lists of builds of a version: the build IDs are distinct, the order is
\* the service's.
BuildLists ==
    UNION {{s \in [1..k -> [ID : 1..MaxBuildId, Channel : ServiceChannels]] :
               \A i \in 1..k : \A j \in 1..k : s[i].ID = s[j].ID => i = j} :
           k \in 0..MaxBuildId}

\* The clients of the model: with or without a limit, without a channel
\* filter, with one channelToAPI knows, or with one it does not know.
Clients == [Limit : 0..MaxLimit, Channel : {"", ChannelAlpha, ChannelStable, "nightly"}]

\* The record of a call of FindPromotedBuild with the failing queries f that
\* returned r.
Promoted(f, r) ==
    [NoPromo EXCEPT !.op = "FindPromotedBuild", !.failed = f, !.id = r.id, !.err = r.err]

InitPromo ==
    /\ Builds \in BuildLists
    /\ Client \in Clients
    /\ promo = NoPromo
    /\ Versions = [k \in {} |-> <<>>]
    /\ call = NoCall
    /\ cmp = NoCmp
    /\ artifactIdle
    /\ downloadIdle

CallFindPromotedBuild ==
    /\ promo.op = "none"
    /\ \E f \in [rec : BOOLEAN, stable : BOOLEAN, latest : BOOLEAN] :
          promo' = Promoted(f, FindPromotedBuild(Client, Builds, f))
    /\ UNCHANGED <<Builds, Client, versionVars, artifactVars, downloadVars>>

NextPromo == CallFindPromotedBuild

SpecPromo == InitPromo /\ [][NextPromo]_vars

----------------------------------------------------------------------------
(* Properties of FindPromotedBuild (specification, section 4.2).            *)

\* The IDs of the builds of channel ch that the service holds for the version.
SpecChannelIds(ch) == {Builds[i].ID : i \in {j \in DOMAIN Builds : Builds[j].Channel = ch}}

SpecMaxId(ids) == CHOOSE m \in ids : \A x \in ids : x <= m

\* The recommended query, or the stable query, returns at least one build.
SpecRecommendedAnswers == ~promo.failed.rec /\ SpecChannelIds("RECOMMENDED") # {}

SpecStableAnswers == ~promo.failed.stable /\ SpecChannelIds("STABLE") # {}

\* The ID the latest-build shortcut returns for the version.
SpecShortcutId == SpecMaxId({Builds[i].ID : i \in DOMAIN Builds})

\* The builds a builds query for the client's channel returns: those of the
\* channel (all of them for a channel the query cannot name), the last Limit
\* of them when the client has a limit.
SpecOfClientChannel ==
    IF Client.Channel \in DOMAIN channelToAPI
      THEN SelectSeq(Builds, LAMBDA b : b.Channel = channelToAPI[Client.Channel])
      ELSE Builds

SpecLastOf(s, n) == IF n > 0 /\ Len(s) > n THEN SubSeq(s, Len(s) - n + 1, Len(s)) ELSE s

SpecFilteredIds ==
    {SpecLastOf(SpecOfClientChannel, Client.Limit)[i].ID :
        i \in DOMAIN SpecLastOf(SpecOfClientChannel, Client.Limit)}

\* C11: FindPromotedBuild returns a recommended build when the recommended
\* query returns at least one build; otherwise a stable build when the stable
\* query returns at least one; otherwise the ID the latest-build shortcut
\* returns, for every client (channel filter or limit set or not).
C11_PriorityChain ==
    promo.op = "FindPromotedBuild" =>
        IF SpecRecommendedAnswers
          THEN promo.err = "" /\ promo.id \in SpecChannelIds("RECOMMENDED")
        ELSE IF SpecStableAnswers
          THEN promo.err = "" /\ promo.id \in SpecChannelIds("STABLE")
        ELSE (~promo.failed.latest /\ Builds # <<>>) =>
                promo.err = "" /\ promo.id = SpecShortcutId

\* C11, amended: the first two steps as above; the third step asks the
\* latest-build shortcut only for a client without a channel filter, and for a
\* client with a channel filter it returns the highest ID among the builds the
\* builds query returns for that channel, or an error when it returns none.
C11_PriorityChainByFilter ==
    promo.op = "FindPromotedBuild" =>
        IF SpecRecommendedAnswers
          THEN promo.err = "" /\ promo.id \in SpecChannelIds("RECOMMENDED")
        ELSE IF SpecStableAnswers
          THEN promo.err = "" /\ promo.id \in SpecChannelIds("STABLE")
        ELSE IF Client.Channel = ""
          THEN (~promo.failed.latest /\ Builds # <<>>) =>
                  promo.err = "" /\ promo.id = SpecShortcutId
        ELSE /\ (~promo.failed.latest /\ SpecFilteredIds # {}) =>
                  promo.err = "" /\ promo.id = SpecMaxId(SpecFilteredIds)
             /\ (~promo.failed.latest /\ SpecFilteredIds = {}) => promo.err # ""

\* C11 witness: on a client with a channel filter, neither channel step
\* answered and the third step returned a build that is not the one the
\* latest-build shortcut returns.
C11_Witness ==
    /\ promo.op = "FindPromotedBuild"
    /\ Client.Channel = ChannelAlpha
    /\ Client.Limit > 0
    /\ ~SpecRecommendedAnswers
    /\ ~SpecStableAnswers
    /\ promo.err = ""
    /\ promo.id # SpecShortcutId

\* C12: when a channel step of FindPromotedBuild returns at least one build,
\* the ID returned is the highest ID among all builds of that channel, in
\* whatever order the service lists them.
C12_ChannelStepReturnsMaximum ==
    promo.op = "FindPromotedBuild" =>
        /\ SpecRecommendedAnswers =>
              promo.id = SpecMaxId(SpecChannelIds("RECOMMENDED"))
        /\ (~SpecRecommendedAnswers /\ SpecStableAnswers) =>
              promo.id = SpecMaxId(SpecChannelIds("STABLE"))

\* The latest-build step fails: its request fails, or there is nothing for it
\* to return.
SpecLatestStepFails ==
    \/ promo.failed.latest
    \/ IF Client.Channel = "" THEN Builds = <<>> ELSE SpecFilteredIds = {}

\* C13: FindPromotedBuild returns an error only when the recommended query,
\* the stable query and the latest-build query have all failed.
C13_ErrorOnlyWhenAllFailed ==
    (promo.op = "FindPromotedBuild" /\ promo.err # "") =>
        promo.failed.rec /\ promo.failed.stable /\ SpecLatestStepFails

\* C13, amended: FindPromotedBuild returns an error exactly when the
\* latest-build step fails after neither channel step returned a build; a
\* channel step passes control on whether its query failed or succeeded with
\* zero builds, and a step that succeeds with zero builds is never an error by
\* itself.
C13_ErrorWhenLatestStepFails ==
    promo.op = "FindPromotedBuild" =>
        (promo.err # "" <=>
            ~SpecRecommendedAnswers /\ ~SpecStableAnswers /\ SpecLatestStepFails)

\* C13 witness: both channel queries succeeded with zero builds and
\* FindPromotedBuild returned the error of the latest-build step.
C13_Witness ==
    /\ promo.op = "FindPromotedBuild"
    /\ ~promo.failed.rec
    /\ ~promo.failed.stable
    /\ Builds # <<>>
    /\ promo.err = "failed to get latest build"

\* C14: a failed recommended query, or a failed stable query, is surfaced to
\* the caller of FindPromotedBuild: the call returns an error instead of
\* falling through to the next step.
C14_FailedQuerySurfaced ==
    promo.op = "FindPromotedBuild" =>
        /\ promo.failed.rec => promo.err # ""
        /\ (~SpecRecommendedAnswers /\ promo.failed.stable) => promo.err # ""

----------------------------------------------------------------------------
(* Checksums.  The bytes of a file are a sequence of characters; a checksum *)
(* is the string of its hexadecimal digits.                                 *)

\* The digits of encoding/hex: lower case.
hextable == <<"0", "1", "2", "3", "4", "5", "6", "7", "8", "9", "a", "b", "c", "d", "e", "f">>

\* hex.EncodeToString on a sequence of byte values.
RECURSIVE EncodeToString(_)
EncodeToString(src) ==
    IF src = <<>> THEN <<>>
    ELSE <<hextable[(Head(src) \div 16) + 1], hextable[(Head(src) % 16) + 1]>>
         \o EncodeToString(Tail(src))

\* hasher.Sum(nil) after the bytes of data were written to the hasher.  SHA-256
\* is modelled by a function without collisions: the length of the data, then
\* its bytes.
Sum(data) == <<Len(data)>> \o [i \in 1..Len(data) |-> Byte[data[i]]]

\* The upper-case form of a string.
ToUpper(s) ==
    [i \in 1..Len(s) |-> IF s[i] \in Range(Lower) THEN Upper[IndexIn(Lower, s[i])] ELSE s[i]]

\* The longest stream of the model, in bytes.
MaxBytes == 2

\* The streams of the model.
Payloads == UNION {[1..n -> {"J", "K"}] : n \in 0..MaxBytes}

----------------------------------------------------------------------------
(* The default artifact of a build: GetDownloadURL, GetDownloadName,        *)
(* GetDownloadSHA256 and GetDefaultDownloadName.  Downloads is the map of a  *)
(* BuildV3Response; first is the key a range over the map yields first.      *)

\* The keys a range over the map d can yield first; "" when it yields none.
rangeFirst(d) == IF DOMAIN d = {} THEN {""} ELSE DOMAIN d

GetDownloadURL(d, first) ==
    IF "server:default" \in DOMAIN d THEN d["server:default"].URL
    ELSE IF DOMAIN d # {} THEN d[first].URL
    ELSE ""

\* GetDownloadName without the lookup of the canonical key.
firstDownloadName(d, first) == IF DOMAIN d # {} THEN d[first].Name ELSE ""

GetDownloadName(d, first) ==
    IF "server:default" \in DOMAIN d THEN d["server:default"].Name
    ELSE IF DOMAIN d # {} THEN d[first].Name
    ELSE ""

GetDownloadSHA256(d, first) ==
    IF "server:default" \in DOMAIN d THEN d["server:default"].Checksums.SHA256
    ELSE IF DOMAIN d # {} THEN d[first].Checksums.SHA256
    ELSE <<>>

\* GetDefaultDownloadName, on the name GetDownloadName returned; failed: the
\* build query failed.
defaultDownloadName(failed, name) ==
    IF failed THEN [val |-> "", err |-> "failed to get build info"]
    ELSE IF name = "" THEN [val |-> "", err |-> "no downloads found for this build"]
    ELSE [val |-> name, err |-> ""]

GetDefaultDownloadName(d, first, failed) == defaultDownloadName(failed, GetDownloadName(d, first))

\* The keys of the Downloads maps of the model.
DownloadKeys == {"server:default", "server:mojang", "server:legacy"}

\* The checksums the service declares for the streams of the model.
Declared == {EncodeToString(Sum(p)) : p \in Payloads}

\* The DownloadV3 entries of the model.
DownloadEntries ==
    [Name : {"", "paper.jar", "velocity.jar"},
     URL : {"https://fill/paper.jar", "https://fill/velocity.jar"},
     Checksums : [SHA256 : {EncodeToString(Sum(<<"J">>)), EncodeToString(Sum(<<"K">>))}]]

DownloadMaps == UNION {[K -> DownloadEntries] : K \in SUBSET DownloadKeys}

InitArtifact ==
    /\ Downloads \in DownloadMaps
    /\ art = NoArt
    /\ Versions = [k \in {} |-> <<>>]
    /\ call = NoCall
    /\ cmp = NoCmp
    /\ buildsIdle
    /\ downloadIdle

CallGetDownloadURL ==
    /\ art.op = "none"
    /\ \E first \in rangeFirst(Downloads) :
          art' = [op |-> "GetDownloadURL", val |-> GetDownloadURL(Downloads, first), err |-> ""]
    /\ UNCHANGED <<Downloads, versionVars, buildVars, downloadVars>>

CallGetDownloadName ==
    /\ art.op = "none"
    /\ \E first \in rangeFirst(Downloads) :
          art' = [op |-> "GetDownloadName", val |-> GetDownloadName(Downloads, first), err |-> ""]
    /\ UNCHANGED <<Downloads, versionVars, buildVars, downloadVars>>

CallGetDownloadSHA256 ==
    /\ art.op = "none"
    /\ \E first \in rangeFirst(Downloads) :
          art' = [op |-> "GetDownloadSHA256", val |-> GetDownloadSHA256(Downloads, first),
                  err |-> ""]
    /\ UNCHANGED <<Downloads, versionVars, buildVars, downloadVars>>

\* The record of a call of GetDefaultDownloadName that returned r.
DefaultName(r) == [op |-> "GetDefaultDownloadName", val |-> r.val, err |-> r.err]

CallGetDefaultDownloadName ==
    /\ art.op = "none"
    /\ \E first \in rangeFirst(Downloads), failed \in BOOLEAN :
          art' = DefaultName(GetDefaultDownloadName(Downloads, first, failed))
    /\ UNCHANGED <<Downloads, versionVars, buildVars, downloadVars>>

NextArtifact ==
    \/ CallGetDownloadURL
    \/ CallGetDownloadName
    \/ CallGetDownloadSHA256
    \/ CallGetDefaultDownloadName

SpecArtifact == InitArtifact /\ [][NextArtifact]_vars

----------------------------------------------------------------------------
(* Properties of the default artifact (specification, section 4.3).         *)

\* C15: GetDownloadURL, GetDownloadName and GetDownloadSHA256 return the
\* field of the entry under "server:default" whenever the map has that key,
\* and the field of another entry of the map only when the key is absent; for
\* an empty map GetDefaultDownloadName fails with an error.
C15_CanonicalKeyPreferred ==
    /\ art.op = "GetDownloadURL" =>
          IF "server:default" \in DOMAIN Downloads
            THEN art.val = Downloads["server:default"].URL
            ELSE DOMAIN Downloads # {} => \E k \in DOMAIN Downloads : art.val = Downloads[k].URL
    /\ art.op = "GetDownloadName" =>
          IF "server:default" \in DOMAIN Downloads
            THEN art.val = Downloads["server:default"].Name
            ELSE DOMAIN Downloads # {} => \E k \in DOMAIN Downloads : art.val = Downloads[k].Name
    /\ art.op = "GetDownloadSHA256" =>
          IF "server:default" \in DOMAIN Downloads
            THEN art.val = Downloads["server:default"].Checksums.SHA256
            ELSE DOMAIN Downloads # {} =>
                    \E k \in DOMAIN Downloads : art.val = Downloads[k].Checksums.SHA256
    /\ (art.op = "GetDefaultDownloadName" /\ DOMAIN Downloads = {}) =>
          art.err # "" /\ art.val = ""

\* C15 witness: GetDownloadName returned the name under "server:default" of a
\* map whose two other entries carry another name.
C15_Witness ==
    /\ art.op = "GetDownloadName"
    /\ DOMAIN Downloads = DownloadKeys
    /\ art.val = "paper.jar"
    /\ \A k \in DownloadKeys \ {"server:default"} : Downloads[k].Name = "velocity.jar"

----------------------------------------------------------------------------
(* DownloadFile, and the download command that calls it.  Served maps the   *)
(* download URLs of the build to the bytes the service streams for them.     *)

\* DownloadFile returning a result although a step failed.
failedWithResult(d, msg) ==
    [d EXCEPT !.pc = "returned", !.at = d.pc, !.err = msg,
              !.result = <<[Filename |-> d.destPath, ExpectedSHA256 |-> d.expectedSHA256,
                            ActualSHA256 |-> <<>>, Valid |-> FALSE]>>]

\* DownloadFile returning nil and an error.
failed(d, msg) == [d EXCEPT !.pc = "returned", !.at = d.pc, !.result = <<>>, !.err = msg]

\* DownloadFile after GetBuild: url and sha are what GetDownloadURL and
\* GetDownloadSHA256 returned for the build.
afterGetBuild(d, buildFailed, url, sha) ==
    IF buildFailed THEN failed(d, "failed to get build info")
    ELSE IF url = "" THEN failed(d, "no download URL found for build")
    ELSE [d EXCEPT !.pc = "DownloadBuild", !.downloadURL = url, !.expectedSHA256 = sha]

\* The return of DownloadFile after the copy, valid the outcome of the
\* comparison of the checksums.
verified(d, actualSHA256, valid) ==
    [d EXCEPT !.pc = "returned", !.at = "Verify",
              !.result = <<[Filename |-> d.destPath,
                            ExpectedSHA256 |-> d.expectedSHA256,
                            ActualSHA256 |-> actualSHA256,
                            Valid |-> valid]>>,
              !.err = IF ~valid /\ d.expectedSHA256 # <<>> THEN "SHA256 mismatch" ELSE ""]

\* The end of DownloadFile without the comparison, every download invalid.
verifyNeverValid(d, actualSHA256) == verified(d, actualSHA256, FALSE)

\* The end of DownloadFile without the comparison, every download valid.
verifyAlwaysValid(d, actualSHA256) == verified(d, actualSHA256, TRUE)

\* The end of DownloadFile: the checksum of the bytes written is compared with
\* the declared one.
verify(d, actualSHA256) == verified(d, actualSHA256, actualSHA256 = d.expectedSHA256)

\* The download command on what DownloadFile returned.
downloadCmd(d) ==
    IF d.err # "" THEN [d EXCEPT !.pc = "exited", !.exit = 1, !.out = "Error downloading file"]
    ELSE IF ~d.result[1].Valid
      THEN [d EXCEPT !.pc = "exited", !.exit = 1, !.out = "Checksum verification FAILED!"]
    ELSE [d EXCEPT !.pc = "exited", !.exit = 0, !.out = "Downloaded"]

\* The destination path of the model.
DestPath == "server/paper.jar"

\* The checksums a build declares: none, the lower-case digits of a digest, or
\* its upper-case digits.
DeclaredForms == {<<>>} \cup Declared \cup {ToUpper(x) : x \in Declared}

\* The Downloads maps DownloadFile is called on: no entry, the canonical entry
\* (with or without a URL), or two entries under other keys.
DownloadFileMaps ==
    {[k \in {} |-> <<>>]}
    \cup {[k \in {"server:default"} |->
              [Name |-> "paper.jar", URL |-> u, Checksums |-> [SHA256 |-> x]]] :
            u \in {"", "https://fill/paper.jar"}, x \in DeclaredForms}
    \cup {[k \in {"server:mojang", "server:legacy"} |->
              IF k = "server:mojang"
                THEN [Name |-> "paper.jar", URL |-> "https://fill/paper.jar",
                      Checksums |-> [SHA256 |-> EncodeToString(Sum(<<"J">>))]]
                ELSE [Name |-> "velocity.jar", URL |-> "https://fill/velocity.jar",
                      Checksums |-> [SHA256 |-> EncodeToString(Sum(<<"K">>))]]]}

\* The download URLs of the map d.
urlsOf(d) == {d[k].URL : k \in DOMAIN d} \ {""}

InitDownload ==
    /\ Downloads \in DownloadFileMaps
    /\ Served \in [urlsOf(Downloads) -> Payloads]
    /\ disk \in {NoFile, [exists |-> TRUE, data |-> <<"O">>]}
    /\ dl = NoDownload
    /\ othersIdle
    /\ art = NoArt
    /\ Versions = [k \in {} |-> <<>>]
    /\ call = NoCall
    /\ cmp = NoCmp
    /\ buildsIdle

\* makeRequest fails: the request fails by itself, or its context is done.
requestFails(d, transportFailed) == transportFailed \/ d.ctxDone

\* A read of the response body, or the write that follows it, fails: bytes
\* the transport has received are read whatever the context; a read that has
\* to wait for the connection fails when the context is done.
copyFails(d, ioFailed) == ioFailed \/ (d.buffered = 0 /\ d.ctxDone)

\* DownloadFile is called and queries the build.
CallDownloadFile ==
    /\ dl.pc = "idle"
    /\ \E buildFailed \in BOOLEAN, firstURL \in rangeFirst(Downloads),
          firstSHA \in rangeFirst(Downloads) :
          dl' = afterGetBuild([dl EXCEPT !.destPath = DestPath],
                              requestFails(dl, buildFailed),
                              GetDownloadURL(Downloads, firstURL),
                              GetDownloadSHA256(Downloads, firstSHA))
    /\ UNCHANGED <<Served, disk, Downloads, art, versionVars, buildVars, comp, conc>>

DownloadBuild ==
    /\ dl.pc = "DownloadBuild"
    /\ \E requestFailed \in BOOLEAN, received \in 0..Len(Served[dl.downloadURL]) :
          dl' = IF requestFails(dl, requestFailed) THEN failed(dl, "failed to download build")
                ELSE [dl EXCEPT !.pc = "MkdirAll", !.reader = Served[dl.downloadURL],
                                !.buffered = received]
    /\ UNCHANGED <<Served, disk, Downloads, art, versionVars, buildVars, comp, conc>>

MkdirAll ==
    /\ dl.pc = "MkdirAll"
    /\ \E mkdirFailed \in BOOLEAN :
          dl' = IF mkdirFailed THEN failed(dl, "failed to create destination directory")
                ELSE [dl EXCEPT !.pc = "Create"]
    /\ UNCHANGED <<Served, disk, Downloads, art, versionVars, buildVars, comp, conc>>

\* os.Create: the file is created, or truncated when it exists.
Create ==
    /\ dl.pc = "Create"
    /\ \E createFailed \in BOOLEAN :
          /\ dl' = IF createFailed THEN failed(dl, "failed to create destination file")
                   ELSE [dl EXCEPT !.pc = "Copy", !.hasher = <<>>]
          /\ disk' = IF createFailed THEN disk ELSE [exists |-> TRUE, data |-> <<>>]
    /\ UNCHANGED <<Served, Downloads, art, versionVars, buildVars, comp, conc>>

\* One round of io.Copy: a byte is read and written to the file and to the
\* hasher, or the read or the write fails.  A read with nothing buffered
\* receives the next bytes from the connection, received of them.
Copy ==
    /\ dl.pc = "Copy"
    /\ dl.reader # <<>>
    /\ \E ioFailed \in BOOLEAN, received \in 1..Len(dl.reader) :
          /\ dl' = IF copyFails(dl, ioFailed) THEN failed(dl, "failed to copy data")
                   ELSE [dl EXCEPT !.reader = Tail(@), !.hasher = Append(@, Head(dl.reader)),
                                   !.buffered = IF @ > 0 THEN @ - 1 ELSE received - 1]
          /\ disk' = IF copyFails(dl, ioFailed) THEN disk
                     ELSE [disk EXCEPT !.data = Append(@, Head(dl.reader))]
    /\ UNCHANGED <<Served, Downloads, art, versionVars, buildVars, comp, conc>>

\* io.Copy reaches the end of the stream; the checksum is verified and
\* DownloadFile returns.
Verify ==
    /\ dl.pc = "Copy"
    /\ dl.reader = <<>>
    /\ dl' = verify(dl, EncodeToString(Sum(dl.hasher)))
    /\ UNCHANGED <<Served, disk, Downloads, art, versionVars, buildVars, comp, conc>>

\* The caller's context is cancelled, or its deadline passes, before the
\* stream was read to its end.
Cancel ==
    /\ \/ dl.pc \in {"idle", "DownloadBuild", "MkdirAll", "Create"}
       \/ dl.pc = "Copy" /\ dl.reader # <<>>
    /\ ~dl.ctxDone
    /\ dl' = [dl EXCEPT !.ctxDone = TRUE]
    /\ UNCHANGED <<Served, disk, Downloads, art, versionVars, buildVars, comp, conc>>

\* The download command reports what DownloadFile returned and exits.
Report ==
    /\ dl.pc = "returned"
    /\ dl' = downloadCmd(dl)
    /\ UNCHANGED <<Served, disk, Downloads, art, versionVars, buildVars, comp, conc>>

NextDownload ==
    \/ CallDownloadFile
    \/ DownloadBuild
    \/ MkdirAll
    \/ Create
    \/ Copy
    \/ Verify
    \/ Cancel
    \/ Report

SpecDownload == InitDownload /\ [][NextDownload]_vars

----------------------------------------------------------------------------
(* Properties of DownloadFile (specification, sections 4.4 and 7).          *)

\* DownloadFile has returned.
SpecReturned == dl.pc \in {"returned", "exited"}

\* DownloadFile has returned after reading the stream to its end.
SpecCompleted == SpecReturned /\ dl.at = "Verify"

\* The checksum of the bytes the service streamed for the download URL.
SpecComputed == EncodeToString(Sum(Served[dl.downloadURL]))

\* C16: when the stream is read to the end and the computed checksum equals
\* the declared one, DownloadFile returns a nil error and a result with
\* Valid = TRUE, Filename = the destination path, and ExpectedSHA256 equal to
\* ActualSHA256.
C16_IntegrityPass ==
    (SpecCompleted /\ SpecComputed = dl.expectedSHA256) =>
        /\ dl.err = ""
        /\ dl.result # <<>>
        /\ dl.result[1].Valid
        /\ dl.result[1].Filename = DestPath
        /\ dl.result[1].ExpectedSHA256 = dl.result[1].ActualSHA256
        /\ dl.result[1].ActualSHA256 = SpecComputed

\* C16 witness: DownloadFile returned a valid result for a stream of two
\* bytes written over an existing file.
C16_Witness ==
    /\ dl.pc = "returned"
    /\ dl.err = ""
    /\ dl.result # <<>>
    /\ dl.result[1].Valid
    /\ Len(disk.data) = MaxBytes
    /\ disk.data = Served[dl.downloadURL]

\* C17: when the stream is read to the end and the computed checksum differs
\* from a non-empty declared one, DownloadFile returns a non-nil error and a
\* non-nil result with Valid = FALSE that carries both checksums.
C17_IntegrityFail ==
    (SpecCompleted /\ dl.expectedSHA256 # <<>> /\ SpecComputed # dl.expectedSHA256) =>
        /\ dl.err # ""
        /\ dl.result # <<>>
        /\ ~dl.result[1].Valid
        /\ dl.result[1].ExpectedSHA256 = dl.expectedSHA256
        /\ dl.result[1].ActualSHA256 = SpecComputed

\* C17 witness: DownloadFile returned the mismatch error and a result for a
\* stream that is not the one the declared checksum belongs to.
C17_Witness ==
    /\ dl.pc = "returned"
    /\ dl.err = "SHA256 mismatch"
    /\ dl.result # <<>>
    /\ dl.result[1].ExpectedSHA256 = EncodeToString(Sum(<<"J">>))
    /\ dl.result[1].ActualSHA256 = EncodeToString(Sum(<<"K", "J">>))

\* C18: the comparison of the checksums is case-insensitive: a declared
\* checksum that has the digits of the computed one in another case gives
\* Valid = TRUE and no error.
C18_CaseInsensitive ==
    (/\ SpecCompleted
     /\ dl.expectedSHA256 # <<>>
     /\ ToLower(dl.expectedSHA256) = ToLower(SpecComputed)) =>
        /\ dl.err = ""
        /\ dl.result # <<>>
        /\ dl.result[1].Valid

\* C19: when the build declares no checksum, a download read to the end
\* returns no error and Valid = TRUE, and the download command does not report
\* a verification failure.
C19_EmptyChecksumValid ==
    (SpecCompleted /\ dl.expectedSHA256 = <<>>) =>
        /\ dl.err = ""
        /\ dl.result # <<>>
        /\ dl.result[1].Valid
        /\ dl.pc = "exited" => (dl.exit = 0 /\ dl.out # "Checksum verification FAILED!")

\* C20: a failure that is not a checksum mismatch returns a nil result with a
\* non-nil error; a non-nil result is returned only after the stream was
\* copied to its end, so a result with an error means completed but
\* mismatched.
C20_NilResultOnOtherFailures ==
    SpecReturned =>
        /\ dl.at # "Verify" => (dl.result = <<>> /\ dl.err # "")
        /\ dl.result # <<>> =>
              /\ dl.reader = <<>>
              /\ disk.data = Served[dl.downloadURL]
              /\ dl.hasher = Served[dl.downloadURL]
        /\ (dl.result # <<>> /\ dl.err # "") =>
              /\ ~dl.result[1].Valid
              /\ dl.result[1].ActualSHA256 # dl.result[1].ExpectedSHA256

\* C20 witness: the copy failed after the first byte of a longer stream was
\* written, and DownloadFile returned nil and the error.
C20_Witness ==
    /\ dl.pc = "returned"
    /\ dl.at = "Copy"
    /\ dl.err = "failed to copy data"
    /\ dl.result = <<>>
    /\ Len(disk.data) = 1
    /\ dl.reader # <<>>

\* C21: DownloadFile opens the destination with exclusive-create semantics:
\* when a file exists at the destination path the step that opens it fails,
\* DownloadFile returns an error, and the file is left as it was.
C21_ExclusiveCreate ==
    [][(dl.pc = "Create" /\ dl'.pc # "Create" /\ disk.exists) =>
          (disk' = disk /\ dl'.pc = "returned" /\ dl'.err # "")]_vars

\* C22: when the caller's context is cancelled, or its deadline passes,
\* before the body stream was read to its end, DownloadFile returns an error
\* and a nil result; no result is returned for a stream that was not read to
\* its end.  Stated for the non-empty streams, where the cancellation comes
\* before a byte that is still to be read.
C22_CancellationObserved ==
    /\ (SpecReturned /\ dl.ctxDone /\ dl.downloadURL # "" /\ Served[dl.downloadURL] # <<>>) =>
          (dl.err # "" /\ dl.result = <<>>)
    /\ (SpecReturned /\ dl.result # <<>>) => dl.reader = <<>>

----------------------------------------------------------------------------
(* The composite download operations: DownloadLatestBuild,                  *)
(* DownloadLatestStableVersion and DownloadPromotedBuild.  Each resolves a   *)
(* build and a file name, calls DownloadFile and returns what it makes of    *)
(* DownloadFile's return.                                                    *)

\* filepath.Join of a directory and a file name.
Join(dir, name) == dir \o "/" \o name

\* The destination directory of the model.
DestDir == "server"

\* A composite operation returning nil and an error.
compFailed(c, msg) == [c EXCEPT !.pc = "returned", !.result = <<>>, !.err = msg]

\* DownloadLatestBuild up to its call of DownloadFile: r is what
\* GetLatestBuildV3 returned, name what GetDownloadName returned for the build.
downloadLatestBuild(c, r, name) ==
    IF r.err # "" THEN compFailed(c, "failed to get latest build")
    ELSE IF name = "" THEN compFailed(c, "no download found for this build")
    ELSE [c EXCEPT !.pc = "DownloadFile", !.build = r.build.ID, !.destPath = Join(DestDir, name)]

\* DownloadLatestStableVersion on what DownloadLatestBuild made of c.
wrapLatestBuild(c) ==
    IF c.pc = "returned" /\ c.err # "" THEN [c EXCEPT !.err = "failed to download latest build"]
    ELSE c

\* DownloadLatestStableVersion up to the call of DownloadFile: v is what
\* GetLatestVersion returned.
downloadLatestStableVersion(c, v, r, name) ==
    IF v.err # "" THEN compFailed(c, "failed to get latest version")
    ELSE wrapLatestBuild(downloadLatestBuild([c EXCEPT !.version = v.val], r, name))

\* DownloadPromotedBuild up to its call of DownloadFile: p is what
\* FindPromotedBuild returned, n what GetDefaultDownloadName returned.
downloadPromotedBuild(c, p, n) ==
    IF p.err # "" THEN compFailed(c, "failed to find promoted build")
    ELSE IF n.err # "" THEN compFailed(c, "failed to get default download name")
    ELSE [c EXCEPT !.pc = "DownloadFile", !.build = p.id, !.destPath = Join(DestDir, n.val)]

\* The return of DownloadLatestBuild and of DownloadPromotedBuild after
\* DownloadFile returned d.
afterDownloadFile(c, d) ==
    IF d.err # "" THEN compFailed(c, "failed to download file")
    ELSE [c EXCEPT !.pc = "returned", !.result = d.result, !.err = ""]

\* The return of the composite operation c.op after DownloadFile returned d.
compositeReturn(c, d) ==
    IF c.op = "DownloadLatestStableVersion" THEN wrapLatestBuild(afterDownloadFile(c, d))
    ELSE afterDownloadFile(c, d)

\* The version DownloadLatestBuild and DownloadPromotedBuild are called with.
GivenVersion == v1_21_10

\* The projects of the composite operations: one group of up to two
\* identifiers, a release and a release candidate of the next release.
CompositeProjects ==
    {[k \in {"1.21"} |-> s] : s \in UNION {[1..n -> {v1_21_10, v1_21_11_rc3}] : n \in 0..2}}

\* The builds of the version: none or one.
CompositeBuilds == {s \in BuildLists : Len(s) <= 1}

\* The Downloads of the build: none, or the canonical entry with the checksum
\* of the stream served or with another one.
CompositeDownloads ==
    {[k \in {} |-> <<>>]}
    \cup {[k \in {"server:default"} |->
              [Name |-> "paper.jar", URL |-> "https://fill/paper.jar",
               Checksums |-> [SHA256 |-> EncodeToString(Sum(p))]]] : p \in {<<"J">>, <<"K">>}}

InitComposite ==
    /\ Versions \in CompositeProjects
    /\ Builds \in CompositeBuilds
    /\ Client = [Limit |-> 0, Channel |-> ""]
    /\ Downloads \in CompositeDownloads
    /\ Served = [u \in urlsOf(Downloads) |-> <<"J">>]
    /\ disk = NoFile
    /\ dl = NoDownload
    /\ othersIdle
    /\ promo = NoPromo
    /\ art = NoArt
    /\ call = NoCall
    /\ cmp = NoCmp

CallDownloadLatestBuild ==
    /\ comp.pc = "idle"
    /\ \E latestFailed \in BOOLEAN, first \in rangeFirst(Downloads) :
          comp' = downloadLatestBuild(
                      [comp EXCEPT !.op = "DownloadLatestBuild", !.version = GivenVersion],
                      GetLatestBuildV3(Client, Builds, latestFailed),
                      GetDownloadName(Downloads, first))
    /\ UNCHANGED <<Served, disk, dl, conc, Downloads, art, versionVars, buildVars>>

CallDownloadLatestStableVersion ==
    /\ comp.pc = "idle"
    /\ \E order \in IterationOrders(DOMAIN Versions), projectFailed \in BOOLEAN,
          latestFailed \in BOOLEAN, first \in rangeFirst(Downloads) :
          comp' = downloadLatestStableVersion(
                      [comp EXCEPT !.op = "DownloadLatestStableVersion"],
                      GetLatestVersion(Versions, order, projectFailed),
                      GetLatestBuildV3(Client, Builds, latestFailed),
                      GetDownloadName(Downloads, first))
    /\ UNCHANGED <<Served, disk, dl, conc, Downloads, art, versionVars, buildVars>>

CallDownloadPromotedBuild ==
    /\ comp.pc = "idle"
    /\ \E f \in [rec : BOOLEAN, stable : BOOLEAN, latest : BOOLEAN], buildFailed \in BOOLEAN,
          first \in rangeFirst(Downloads) :
          comp' = downloadPromotedBuild(
                      [comp EXCEPT !.op = "DownloadPromotedBuild", !.version = GivenVersion],
                      FindPromotedBuild(Client, Builds, f),
                      GetDefaultDownloadName(Downloads, first, buildFailed))
    /\ UNCHANGED <<Served, disk, dl, conc, Downloads, art, versionVars, buildVars>>

\* The composite operation calls DownloadFile with the path it formed.
CompositeDownloadFile ==
    /\ comp.pc = "DownloadFile"
    /\ dl.pc = "idle"
    /\ \E buildFailed \in BOOLEAN, firstURL \in rangeFirst(Downloads),
          firstSHA \in rangeFirst(Downloads) :
          dl' = afterGetBuild([dl EXCEPT !.destPath = comp.destPath],
                              requestFails(dl, buildFailed),
                              GetDownloadURL(Downloads, firstURL),
                              GetDownloadSHA256(Downloads, firstSHA))
    /\ UNCHANGED <<Served, disk, Downloads, art, versionVars, buildVars, comp, conc>>

\* DownloadFile has returned and the composite operation returns.
CompositeReturn ==
    /\ comp.pc = "DownloadFile"
    /\ dl.pc = "returned"
    /\ comp' = compositeReturn(comp, dl)
    /\ UNCHANGED <<Served, disk, dl, conc, Downloads, art, versionVars, buildVars>>

NextComposite ==
    \/ CallDownloadLatestBuild
    \/ CallDownloadLatestStableVersion
    \/ CallDownloadPromotedBuild
    \/ CompositeDownloadFile
    \/ DownloadBuild
    \/ MkdirAll
    \/ Create
    \/ Copy
    \/ Verify
    \/ Cancel
    \/ CompositeReturn

SpecComposite == InitComposite /\ [][NextComposite]_vars

----------------------------------------------------------------------------
(* Properties of the composite download operations.                         *)

\* The versions of the project that are not prerelease-flagged.
SpecStableVersions ==
    {v \in UNION {Range(Versions[k]) : k \in DOMAIN Versions} : ~isSnapshotOrPreRelease(v)}

\* C23: the version DownloadLatestStableVersion downloads is the version
\* GetRecommendedVersion returns for the same project, and it is not
\* prerelease-flagged when the project has a version that is not.
C23_StableVersionSelected ==
    (comp.op = "DownloadLatestStableVersion" /\ comp.version # <<>>) =>
        /\ \E order \in IterationOrders(DOMAIN Versions) :
              GetRecommendedVersion(Versions, order, FALSE).val = comp.version
        /\ SpecStableVersions # {} => ~isSnapshotOrPreRelease(comp.version)

\* C29: when DownloadFile returns its result together with the mismatch
\* error, the composite operation returns an error together with that result.
C29_MismatchResultHandedOn ==
    (comp.pc = "returned" /\ dl.pc = "returned" /\ dl.err = "SHA256 mismatch") =>
        (comp.err # "" /\ comp.result = dl.result /\ comp.result # <<>>)

----------------------------------------------------------------------------
(* The list queries and the latest build: GetBuilds, GetVersion and          *)
(* GetLatestBuildV3 called on a client with or without Limit and Channel.    *)

\* The build list of GetVersion: the IDs of the version's builds as the
\* service lists them, cut by the client's limit.
GetVersion(c, all, queryFailed) ==
    IF queryFailed THEN [builds |-> <<>>, err |-> "failed to request version"]
    ELSE [builds |-> applyLimit(c, [i \in 1..Len(all) |-> all[i].ID]), err |-> ""]

\* The channels GetBuilds is called with in the model: none, one that
\* channelToAPI knows, one that it does not know, two.
ChannelArgs ==
    {<<>>, <<ChannelAlpha>>, <<ChannelStable>>, <<"nightly">>, <<ChannelStable, ChannelRecommended>>}

\* The channels GetLatestBuildV3 passes to GetBuilds.
latestChannels(c) == IF c.Channel # "" THEN <<c.Channel>> ELSE <<>>

\* The record of a list query called with channels that returned r.
Listed(op, channels, queryFailed, r) ==
    [NoPromo EXCEPT !.op = op, !.failed.latest = queryFailed, !.channels = channels,
                    !.query = channelStrs(channels), !.builds = r.builds, !.err = r.err]

\* The record of a call of GetLatestBuildV3 that returned r.
Latest(c, queryFailed, r) ==
    [NoPromo EXCEPT !.op = "GetLatestBuildV3", !.failed.latest = queryFailed,
                    !.channels = latestChannels(c), !.query = channelStrs(latestChannels(c)),
                    !.id = r.build.ID, !.err = r.err]

InitBuilds == InitPromo

CallGetBuilds ==
    /\ promo.op = "none"
    /\ \E channels \in ChannelArgs, queryFailed \in BOOLEAN :
          promo' = Listed("GetBuilds", channels, queryFailed, GetBuilds(Client, Builds, channels, queryFailed))
    /\ UNCHANGED <<Builds, Client, versionVars, artifactVars, downloadVars>>

CallGetVersion ==
    /\ promo.op = "none"
    /\ \E queryFailed \in BOOLEAN :
          promo' = Listed("GetVersion", <<>>, queryFailed, GetVersion(Client, Builds, queryFailed))
    /\ UNCHANGED <<Builds, Client, versionVars, artifactVars, downloadVars>>

CallGetLatestBuildV3 ==
    /\ promo.op = "none"
    /\ \E queryFailed \in BOOLEAN :
          promo' = Latest(Client, queryFailed, GetLatestBuildV3(Client, Builds, queryFailed))
    /\ UNCHANGED <<Builds, Client, versionVars, artifactVars, downloadVars>>

NextBuilds == CallGetBuilds \/ CallGetVersion \/ CallGetLatestBuildV3

SpecBuilds == InitBuilds /\ [][NextBuilds]_vars

----------------------------------------------------------------------------
(* Properties of the list queries and of GetLatestBuildV3.                  *)

\* The IDs of a list of builds.
SpecIds(builds) == {builds[i].ID : i \in DOMAIN builds}

\* C24: with Limit = N > 0 GetBuilds returns exactly the N builds of the
\* highest IDs of the service's response, whatever the order of the response,
\* and the build list of GetVersion is the N highest IDs; with Limit = 0, or
\* with at most N items in the response, the response is returned unchanged.
C24_LimitKeepsLatest ==
    /\ (promo.op = "GetBuilds" /\ promo.err = "" /\ promo.channels = <<>>) =>
          IF Client.Limit = 0 \/ Len(Builds) <= Client.Limit
            THEN promo.builds = Builds
            ELSE /\ Len(promo.builds) = Client.Limit
                 /\ SpecIds(promo.builds) \subseteq SpecIds(Builds)
                 /\ \A x \in SpecIds(promo.builds) :
                       \A y \in SpecIds(Builds) \ SpecIds(promo.builds) : x > y
    /\ (promo.op = "GetVersion" /\ promo.err = "") =>
          IF Client.Limit = 0 \/ Len(Builds) <= Client.Limit
            THEN promo.builds = [i \in 1..Len(Builds) |-> Builds[i].ID]
            ELSE /\ Len(promo.builds) = Client.Limit
                 /\ Range(promo.builds) \subseteq SpecIds(Builds)
                 /\ \A x \in Range(promo.builds) :
                       \A y \in SpecIds(Builds) \ Range(promo.builds) : x > y

\* C25: on a client with a channel filter that the builds query can name,
\* GetLatestBuildV3 returns the highest ID among all builds of that channel,
\* whatever the order of the service's list and the client's Limit, and it
\* returns an error when the channel has no builds.
C25_LatestOfChannel ==
    (/\ promo.op = "GetLatestBuildV3"
     /\ Client.Channel \in DOMAIN channelToAPI
     /\ ~promo.failed.latest) =>
        IF SpecChannelIds(channelToAPI[Client.Channel]) = {}
          THEN promo.err # ""
          ELSE promo.err = ""
               /\ promo.id = SpecMaxId(SpecChannelIds(channelToAPI[Client.Channel]))

\* C30: a builds query made for at least one channel names a channel in the
\* request, or the call fails: GetBuilds called with channels, and
\* GetLatestBuildV3 on a client with a Channel, never return the answer to an
\* unfiltered query.
C30_FilterNeverWidened ==
    (/\ promo.op \in {"GetBuilds", "GetLatestBuildV3"}
     /\ promo.channels # <<>>
     /\ Builds # <<>>
     /\ promo.err = "") =>
        promo.query # <<>>

----------------------------------------------------------------------------
(* The command "list versions": listVersionsCmd.Run.                        *)

\* sort.Sort(sort.Reverse(sort.StringSlice(s))): s in descending byte-wise
\* order; x is put before the first element that is less than it.
RECURSIVE insertReverse(_, _)
insertReverse(x, s) ==
    IF s = <<>> THEN <<x>>
    ELSE IF StringLess(Head(s), x) THEN <<x>> \o s
    ELSE <<Head(s)>> \o insertReverse(x, Tail(s))

RECURSIVE sortReverse(_)
sortReverse(s) == IF s = <<>> THEN <<>> ELSE insertReverse(Head(s), sortReverse(Tail(s)))

\* versions[len(versions)-limit:] when the --limit flag is set and exceeded.
lastVersions(versions, limit) ==
    IF limit > 0 /\ Len(versions) > limit THEN Drop(versions, Len(versions) - limit)
    ELSE versions

\* The lines listVersionsCmd prints for the flattened versions.
listVersions(versions, limit) == sortReverse(lastVersions(versions, limit))

InitList == Init

\* "list versions PROJECT_ID" with --limit; projectFailed: GetProject returned
\* an error and the command exits.  again holds the lines printed.
CallListVersions ==
    /\ call.op = "none"
    /\ \E order \in IterationOrders(DOMAIN Versions), limit \in 0..MaxLimit,
          projectFailed \in BOOLEAN :
          call' = IF projectFailed
                    THEN [NoCall EXCEPT !.op = "listVersions", !.limit = limit,
                                        !.err = "failed to request project"]
                    ELSE [NoCall EXCEPT !.op = "listVersions", !.limit = limit,
                                        !.flat = FlattenVersions(Versions, order),
                                        !.again = listVersions(FlattenVersions(Versions, order), limit)]
    /\ UNCHANGED <<Versions, cmp, buildVars, artifactVars, downloadVars>>

NextList == CallListVersions

SpecList == InitList /\ [][NextList]_vars

\* C26: "list versions" prints the newest versions with newer versions above
\* older ones under the comparator of FlattenVersions: no line is less than a
\* line below it, and the lines are the last limit elements of what
\* FlattenVersions returned (all of them without a limit).
C26_NewestFirst ==
    (call.op = "listVersions" /\ call.err = "") =>
        /\ \A i \in DOMAIN call.again : \A j \in DOMAIN call.again :
              i < j => ~less(call.again[i], call.again[j])
        /\ Len(call.again) = Len(lastVersions(call.flat, call.limit))
        /\ Range(call.again) = Range(lastVersions(call.flat, call.limit))

----------------------------------------------------------------------------
(* The default artifact inside DownloadFile.                                *)

\* C27: the URL DownloadFile downloads from and the SHA-256 it verifies
\* against belong to one and the same entry of the build's Downloads, also
\* when the canonical key is absent.
C27_SameEntry ==
    (dl.downloadURL # "") =>
        \E k \in DOMAIN Downloads :
            /\ Downloads[k].URL = dl.downloadURL
            /\ Downloads[k].Checksums.SHA256 = dl.expectedSHA256

----------------------------------------------------------------------------
(* Two invocations of DownloadFile running concurrently on one destination  *)
(* path.  Each has its own response stream, hasher and file descriptor; the  *)
(* file is shared.  The contexts are not cancelled.                          *)

Invocations == {1, 2}

\* The byte a file holds where nothing was written below its end.
NUL == "NUL"

\* A write of the byte b at the offset off of a descriptor: in place inside
\* the file, after a hole of zero bytes beyond its end.
writeAt(data, off, b) ==
    IF off < Len(data) THEN [data EXCEPT ![off + 1] = b]
    ELSE data \o [i \in 1..(off - Len(data)) |-> NUL] \o <<b>>

\* DownloadFile from DownloadBuild to os.Create for the invocation d; f says
\* that the step fails.
downloadBuild(d, f, body) ==
    IF requestFails(d, f) THEN failed(d, "failed to download build")
    ELSE [d EXCEPT !.pc = "MkdirAll", !.reader = body, !.buffered = Len(body)]

mkdirAll(d, f) ==
    IF f THEN failed(d, "failed to create destination directory") ELSE [d EXCEPT !.pc = "Create"]

create(d, f) ==
    IF f THEN failed(d, "failed to create destination file")
    ELSE [d EXCEPT !.pc = "Copy", !.hasher = <<>>]

\* One round of io.Copy of the invocation d.
copy(d, f) ==
    IF copyFails(d, f) THEN failed(d, "failed to copy data")
    ELSE [d EXCEPT !.reader = Tail(@), !.hasher = Append(@, Head(d.reader)),
                   !.buffered = @ - 1]

\* The builds of the concurrent invocations: the canonical entry declaring the
\* checksum of a payload.
ConcurrentDownloads ==
    {[k \in {"server:default"} |->
         [Name |-> "paper.jar", URL |-> "https://fill/paper.jar",
          Checksums |-> [SHA256 |-> EncodeToString(Sum(p))]]] : p \in Payloads \ {<<>>}}

InitConcurrent ==
    /\ Downloads \in ConcurrentDownloads
    /\ Served \in [urlsOf(Downloads) -> Payloads \ {<<>>}]
    /\ disk = NoFile
    /\ conc = [i \in Invocations |-> NoDownload]
    /\ comp = NoComposite
    /\ dl = NoDownload
    /\ art = NoArt
    /\ Versions = [k \in {} |-> <<>>]
    /\ call = NoCall
    /\ cmp = NoCmp
    /\ buildsIdle

ConcurrentCall ==
    \E i \in Invocations :
        /\ conc[i].pc = "idle"
        /\ \E buildFailed \in BOOLEAN :
              conc' = [conc EXCEPT ![i] =
                          afterGetBuild([conc[i] EXCEPT !.destPath = DestPath],
                                        requestFails(conc[i], buildFailed),
                                        GetDownloadURL(Downloads, "server:default"),
                                        GetDownloadSHA256(Downloads, "server:default"))]
        /\ UNCHANGED <<Served, disk, dl, comp, Downloads, art, versionVars, buildVars>>

ConcurrentDownloadBuild ==
    \E i \in Invocations :
        /\ conc[i].pc = "DownloadBuild"
        /\ \E requestFailed \in BOOLEAN :
              conc' = [conc EXCEPT ![i] =
                          downloadBuild(conc[i], requestFailed, Served[conc[i].downloadURL])]
        /\ UNCHANGED <<Served, disk, dl, comp, Downloads, art, versionVars, buildVars>>

ConcurrentMkdirAll ==
    \E i \in Invocations :
        /\ conc[i].pc = "MkdirAll"
        /\ \E mkdirFailed \in BOOLEAN : conc' = [conc EXCEPT ![i] = mkdirAll(conc[i], mkdirFailed)]
        /\ UNCHANGED <<Served, disk, dl, comp, Downloads, art, versionVars, buildVars>>

\* os.Create of one invocation: the shared file is created or truncated.
ConcurrentCreate ==
    \E i \in Invocations :
        /\ conc[i].pc = "Create"
        /\ \E createFailed \in BOOLEAN :
              /\ conc' = [conc EXCEPT ![i] = create(conc[i], createFailed)]
              /\ disk' = IF createFailed THEN disk ELSE [exists |-> TRUE, data |-> <<>>]
        /\ UNCHANGED <<Served, dl, comp, Downloads, art, versionVars, buildVars>>

\* One round of io.Copy of one invocation: the byte goes to the file at the
\* offset of the invocation's descriptor, which is the count of the bytes it
\* has written.
ConcurrentCopy ==
    \E i \in Invocations :
        /\ conc[i].pc = "Copy"
        /\ conc[i].reader # <<>>
        /\ \E ioFailed \in BOOLEAN :
              /\ conc' = [conc EXCEPT ![i] = copy(conc[i], ioFailed)]
              /\ disk' = IF copyFails(conc[i], ioFailed) THEN disk
                         ELSE [disk EXCEPT !.data =
                                  writeAt(@, Len(conc[i].hasher), Head(conc[i].reader))]
        /\ UNCHANGED <<Served, dl, comp, Downloads, art, versionVars, buildVars>>

ConcurrentVerify ==
    \E i \in Invocations :
        /\ conc[i].pc = "Copy"
        /\ conc[i].reader = <<>>
        /\ conc' = [conc EXCEPT ![i] = verify(conc[i], EncodeToString(Sum(conc[i].hasher)))]
        /\ UNCHANGED <<Served, disk, dl, comp, Downloads, art, versionVars, buildVars>>

NextConcurrent ==
    \/ ConcurrentCall
    \/ ConcurrentDownloadBuild
    \/ ConcurrentMkdirAll
    \/ ConcurrentCreate
    \/ ConcurrentCopy
    \/ ConcurrentVerify

SpecConcurrent == InitConcurrent /\ [][NextConcurrent]_vars

\* C28: when an invocation returns a result with Valid = true, the file at
\* its Filename holds exactly the bytes whose SHA-256 is ActualSHA256, the
\* bytes the invocation has hashed, whatever another invocation on the same
\* path has done.
C28_ValidMeansFileMatches ==
    [][\A i \in Invocations :
          (/\ conc[i].pc # "returned"
           /\ conc'[i].pc = "returned"
           /\ conc'[i].result # <<>>
           /\ conc'[i].result[1].Valid) =>
              (disk'.exists /\ disk'.data = conc'[i].hasher)]_vars

====
